---- MODULE Spec2Model ----
(***************************************************************************)
(* Replaceroo: list-driven search and replace (replaceroo/replaceroo.py).  *)
(*                                                                         *)
(* A Python str is modelled as a sequence of one-character strings, a     *)
(* Python list as a sequence, a Python dict as a function whose domain is  *)
(* the set of its keys.  replace_strings is modelled one loop iteration    *)
(* per step; get_user_input one prompt per step; main one statement group  *)
(* per step.  A raised exception ends the run in pc = "raised".            *)
(***************************************************************************)
EXTENDS Integers, Sequences, FiniteSets, TLC

VARIABLES
    pc,                \* position of the run
    err,               \* the exception that ended the run, "" while none
    caller,            \* "direct": replace_strings called on its own; "main": from main()
    run,               \* how many times the direct caller has invoked replace_strings
    first,             \* what the first invocation was given and returned (direct caller)
    \* ---- replace_strings: parameters
    text, from_list, to_list, prefix, suffix,
    \* ---- replace_strings: locals
    index, count, not_found, details,
    \* ---- replace_strings: the values returned at line 470
    sorted_details, summary,
    \* ---- the value of `text` at the start of the call and after each iteration
    doc_states,
    \* ---- get_user_input / main
    method, input_details, source_text, replace_list, raw_to_list, temp_list,
    to_prefix, to_suffix, replacement_list, search_prefix, search_suffix,
    summary_text,
    notes,             \* the advisory notes printed so far
    written            \* the files main has written

replace_vars == <<text, from_list, to_list, prefix, suffix, index, count,
                  not_found, details, sorted_details, summary, doc_states>>
main_vars == <<method, input_details, source_text, replace_list, raw_to_list,
               temp_list, to_prefix, to_suffix, replacement_list,
               search_prefix, search_suffix, summary_text, notes, written>>
vars == <<pc, err, caller, run, first, replace_vars, main_vars>>

----------------------------------------------------------------------------
(* Bounds of the model.                                                    *)

\* longest document given to replace_strings directly
MaxTextLen == 3
\* longest 'from' / 'to' list given to replace_strings directly
MaxTerms == 2
\* longest document in the scope-affix runs
MaxScopeTextLen == 5
\* most lines of a 'from' / 'to' reference file
MaxLines == 2

----------------------------------------------------------------------------
(* Values.                                                                 *)

Min(a, b) == IF a <= b THEN a ELSE b

\* str: the empty string and the one-character strings used
EmptyStr == <<>>
StrA == <<"a">>
StrB == <<"b">>
StrC == <<"c">>

\* Python's None: what dict.get returns for a missing key
None == <<"None">>

\* every sequence over S of length at most n
RECURSIVE SeqsUpTo(_, _)
SeqsUpTo(S, n) ==
    IF n = 0 THEN {<<>>}
    ELSE LET shorter == SeqsUpTo(S, n - 1)
         IN shorter \cup {Append(s, x) : s \in {q \in shorter : Len(q) = n - 1}, x \in S}

\* a dict: d[k] = v added to d
DictSet(d, k, v) == [x \in DOMAIN d \cup {k} |-> IF x = k THEN v ELSE d[x]]
\* dict.get(k): None for a missing key
DictGet(d, k) == IF k \in DOMAIN d THEN d[k] ELSE None
EmptyDict == [x \in {} |-> 0]

----------------------------------------------------------------------------
(* The str methods replace_strings calls.                                  *)

\* sub is the slice text[p-1 : p-1+len(sub)] (p counts from 1)
OccursAt(txt, sub, p) ==
    /\ p >= 1
    /\ p + Len(sub) - 1 <= Len(txt)
    /\ SubSeq(txt, p, p + Len(sub) - 1) = sub

\* str.find(sub, start): the lowest position >= start where sub occurs, 0 if none
str_find(txt, sub, start) ==
    LET found == {p \in start..(Len(txt) - Len(sub) + 1) : OccursAt(txt, sub, p)}
    IN IF found = {} THEN 0
       ELSE CHOOSE p \in found : \A q \in found : p <= q

\* the occurrences counted from position start on, the scan resuming after each match
RECURSIVE count_from(_, _, _)
count_from(txt, sub, start) ==
    LET p == str_find(txt, sub, start)
    IN IF p = 0 THEN 0 ELSE 1 + count_from(txt, sub, p + Len(sub))

\* every position where sub occurs, overlapping ones included
count_overlapping(txt, sub) ==
    Cardinality({p \in 1..(Len(txt) + 1) : OccursAt(txt, sub, p)})

\* str.count(sub): non-overlapping occurrences; len(text) + 1 for the empty sub
str_count(txt, sub) ==
    IF sub = EmptyStr THEN Len(txt) + 1 ELSE count_from(txt, sub, 1)

\* str.replace for a non-empty old: the first maxcount matches, left to right,
\* the scan resuming in the original text right after each match
RECURSIVE replace_from_pos(_, _, _, _, _)
replace_from_pos(txt, old, new, start, maxcount) ==
    LET p == IF maxcount = 0 THEN 0 ELSE str_find(txt, old, start)
    IN IF p = 0 THEN SubSeq(txt, start, Len(txt))
       ELSE SubSeq(txt, start, p - 1) \o new
            \o replace_from_pos(txt, old, new, p + Len(old), maxcount - 1)

\* str.replace for the empty old: new before each of the first n characters,
\* the last insertion at the end of the text when n = len(text) + 1
RECURSIVE replace_interleave(_, _, _, _)
replace_interleave(txt, new, i, n) ==
    IF n = 0 THEN SubSeq(txt, i, Len(txt))
    ELSE IF i > Len(txt) THEN new
    ELSE new \o <<txt[i]>> \o replace_interleave(txt, new, i + 1, n - 1)

\* only the first match is replaced
replace_first_only(txt, old, new, maxcount) ==
    IF old = EmptyStr THEN replace_interleave(txt, new, 1, 1)
    ELSE replace_from_pos(txt, old, new, 1, 1)

\* str.replace(old, new, maxcount)
str_replace(txt, old, new, maxcount) ==
    IF old = EmptyStr
    THEN replace_interleave(txt, new, 1, Min(maxcount, Len(txt) + 1))
    ELSE replace_from_pos(txt, old, new, 1, maxcount)

\* an insertion sort that puts a record before the records of equal key
RECURSIVE sorted_unstable(_)
sorted_unstable(ds) ==
    IF ds = <<>> THEN <<>>
    ELSE LET d == ds[Len(ds)]
             rest == sorted_unstable(SubSeq(ds, 1, Len(ds) - 1))
             k == Cardinality({j \in 1..Len(rest) : rest[j]["Instances"] < d["Instances"]})
         IN SubSeq(rest, 1, k) \o <<d>> \o SubSeq(rest, k + 1, Len(rest))

\* sorted(details, key=lambda k: k['Instances']): ascending and stable; the last
\* record goes after every record of the sorted rest whose key is not greater
RECURSIVE sorted_by_instances(_)
sorted_by_instances(ds) ==
    IF ds = <<>> THEN <<>>
    ELSE LET d == ds[Len(ds)]
             rest == sorted_by_instances(SubSeq(ds, 1, Len(ds) - 1))
             k == Cardinality({j \in 1..Len(rest) : rest[j]["Instances"] <= d["Instances"]})
         IN SubSeq(rest, 1, k) \o <<d>> \o SubSeq(rest, k + 1, Len(rest))

----------------------------------------------------------------------------
(* replace_strings, lines 388-470.                                         *)

\* zip(from_list, to_list) yields this many pairs
zip_len(a, b) == Min(Len(a), Len(b))

\* the number of instances looked up in the document as it was given
instances_in_original(txt, replace_from) == str_count(doc_states[1], replace_from)

\* overlapping occurrences counted too
instances_overlapping(txt, replace_from) == count_overlapping(txt, replace_from)

\* line 428: instances = text.count(replace_from)
instances_of(txt, replace_from) == str_count(txt, replace_from)

\* the scope affixes left out of the search string
full_string_no_affix(pre, s, suf) == s

\* lines 424-425: prefix + string + suffix
full_string(pre, s, suf) == pre \o s \o suf

\* the counter incremented by one per found term
count_by_one(c, instances) == c + 1

\* line 437: count = count + instances
count_after(c, instances) == c + instances

\* a record kept only for a term that was found
append_if_found(ds, detail) ==
    IF detail["Instances"] > 0 THEN Append(ds, detail) ELSE ds

\* line 456: details.append(detail)
details_append(ds, detail) == Append(ds, detail)

\* lines 448-453: the detail record of one term
Detail(from_string, replace_from, to_string, replace_to, instances) ==
    [k \in {"Original String", "Full Search String", "New String",
            "Full Replace", "Instances"} |->
        CASE k = "Original String" -> from_string
          [] k = "Full Search String" -> replace_from
          [] k = "New String" -> to_string
          [] k = "Full Replace" -> replace_to
          [] OTHER -> instances]

\* lines 462-467: the summary dict
Summary(idx, cnt, ds) ==
    [k \in {"Searched for Strings", "Strings Found", "Strings Not Found",
            "Total Replaced", "Multiple Instances"} |->
        CASE k = "Searched for Strings" -> idx
          [] k = "Strings Found" ->
                Cardinality({j \in 1..Len(ds) : ds[j]["Instances"] > 0})
          [] k = "Strings Not Found" ->
                Cardinality({j \in 1..Len(ds) : ds[j]["Instances"] = 0})
          [] k = "Total Replaced" -> cnt
          [] OTHER -> Cardinality({j \in 1..Len(ds) : ds[j]["Instances"] > 1})]

\* lines 415-418: the locals as initialised
NoSummary == EmptyDict

\* lines 421-456: one iteration of the for loop over zip(from_list, to_list).
\* prefix + from_string raises TypeError when an affix is None.
LoopBody ==
    /\ pc = "loop"
    /\ index < zip_len(from_list, to_list)
    /\ LET from_string == from_list[index + 1]
           to_string == to_list[index + 1]
       IN IF prefix = None \/ suffix = None
          THEN /\ pc' = "raised"
               /\ err' = "TypeError"
               /\ UNCHANGED <<replace_vars>>
          ELSE LET replace_from == full_string(prefix, from_string, suffix)
                   replace_to == full_string(prefix, to_string, suffix)
                   instances == instances_of(text, replace_from)
                   new_text == IF instances > 0
                               THEN str_replace(text, replace_from, replace_to, instances)
                               ELSE text
               IN /\ text' = new_text
                  /\ count' = IF instances > 0 THEN count_after(count, instances) ELSE count
                  /\ not_found' = IF instances > 0 THEN not_found
                                  ELSE Append(not_found, from_string)
                  /\ index' = index + 1
                  /\ details' = details_append(details,
                         Detail(from_string, replace_from, to_string, replace_to, instances))
                  /\ doc_states' = Append(doc_states, new_text)
                  /\ UNCHANGED <<pc, err, from_list, to_list, prefix, suffix,
                                 sorted_details, summary>>
    /\ UNCHANGED <<caller, run, first, main_vars>>

\* lines 458-470: zip is exhausted; sort the details, gather the summary, return
SortAndReturn ==
    /\ pc = "loop"
    /\ index = zip_len(from_list, to_list)
    /\ sorted_details' = sorted_by_instances(details)
    /\ summary' = Summary(index, count, sorted_by_instances(details))
    /\ pc' = "returned"
    /\ UNCHANGED <<err, caller, run, first, text, from_list, to_list, prefix, suffix,
                   index, count, not_found, details, doc_states, main_vars>>

\* the direct caller feeds the returned text to replace_strings once more,
\* with the same lists and scope (lines 415-418 initialise the locals again)
RunAgain ==
    /\ pc = "returned"
    /\ caller = "direct"
    /\ run = 1
    /\ first' = [text |-> text, details |-> details, summary |-> summary,
                 doc_states |-> doc_states]
    /\ run' = 2
    /\ index' = 0
    /\ count' = 0
    /\ not_found' = <<>>
    /\ details' = <<>>
    /\ sorted_details' = <<>>
    /\ summary' = NoSummary
    /\ doc_states' = <<text>>
    /\ pc' = "loop"
    /\ UNCHANGED <<err, caller, text, from_list, to_list, prefix, suffix, main_vars>>

----------------------------------------------------------------------------
(* Inputs of the direct calls.                                             *)

Texts == SeqsUpTo({"a", "c"}, MaxTextLen)
FromTerms == {EmptyStr, StrA, StrB}
ToTerms == {EmptyStr, StrB, StrC}
Affixes == {EmptyStr, StrC}

\* get_user_input and main have not run
MainIdle ==
    /\ method = ""
    /\ input_details = EmptyDict
    /\ source_text = EmptyStr
    /\ replace_list = <<>>
    /\ raw_to_list = <<>>
    /\ temp_list = <<>>
    /\ to_prefix = EmptyStr
    /\ to_suffix = EmptyStr
    /\ replacement_list = <<>>
    /\ search_prefix = EmptyStr
    /\ search_suffix = EmptyStr
    /\ summary_text = "unset"
    /\ notes = {}
    /\ written = {}

\* replace_strings entered with (t, f, r, p, s): lines 415-418
Entered(t, f, r, p, s) ==
    /\ text = t
    /\ from_list = f
    /\ to_list = r
    /\ prefix = p
    /\ suffix = s
    /\ index = 0
    /\ count = 0
    /\ not_found = <<>>
    /\ details = <<>>
    /\ sorted_details = <<>>
    /\ summary = NoSummary
    /\ doc_states = <<t>>

NoFirst == [text |-> EmptyStr, details |-> <<>>, summary |-> NoSummary,
            doc_states |-> <<>>]

\* replace_strings(text, from_list, to_list, prefix, suffix) called directly
Init ==
    /\ pc = "loop"
    /\ err = ""
    /\ caller = "direct"
    /\ run = 1
    /\ first = NoFirst
    /\ \E t \in Texts, f \in SeqsUpTo(FromTerms, MaxTerms),
          r \in SeqsUpTo(ToTerms, MaxTerms), p \in Affixes, s \in Affixes :
            Entered(t, f, r, p, s)
    /\ MainIdle

Next == LoopBody \/ SortAndReturn

Spec == Init /\ [][Next]_vars

\* the documents, lists and affixes of the scope-affix runs: one or two search
\* terms, as many replacements, and the returned text fed back once
ScopeTexts == SeqsUpTo({"a", "b", "c"}, MaxScopeTextLen)
ScopeFromLists == SeqsUpTo({StrA, StrB}, 2) \ {<<>>}
ScopeToLists == SeqsUpTo({StrB, StrC}, 2) \ {<<>>}

InitScope ==
    /\ pc = "loop"
    /\ err = ""
    /\ caller = "direct"
    /\ run = 1
    /\ first = NoFirst
    /\ \E t \in ScopeTexts, f \in ScopeFromLists, r \in ScopeToLists,
          p \in Affixes, s \in Affixes :
            /\ Len(f) = Len(r)
            /\ Entered(t, f, r, p, s)
    /\ MainIdle

NextScope == LoopBody \/ SortAndReturn \/ RunAgain

SpecScope == InitScope /\ [][NextScope]_vars

----------------------------------------------------------------------------
(* get_user_input, lines 151-384, and main, lines 79-147.                  *)

\* lines 180-186: replace_methods
replace_methods ==
    [m \in {<<"l">>, <<"p">>, <<"s">>, <<"l", "p">>, <<"l", "s">>, <<"p", "s">>,
            <<"l", "p", "s">>} |->
        CASE m = <<"l">> -> "List"
          [] m = <<"p">> -> "Prefix"
          [] m = <<"s">> -> "Suffix"
          [] m = <<"l", "p">> -> "List / Prefix"
          [] m = <<"l", "s">> -> "List / Suffix"
          [] m = <<"p", "s">> -> "Prefix / Suffix"
          [] OTHER -> "List / Prefix / Suffix"]

\* what the user may type at the method prompt: the seven methods and two
\* strings that are no method
MethodInputs == DOMAIN replace_methods \cup {<<"x">>, <<"s", "l">>}

\* method.count(c), used as a truth value at lines 282, 328, 337
MethodHas(m, c) == str_count(m, <<c>>) > 0

\* the contents of the files the user may name
MainTexts == {StrA, <<"a", "b">>, <<"c", "a", "c">>}
FromFiles == SeqsUpTo({StrA, StrB}, MaxLines)
ToFiles == SeqsUpTo({StrB, StrC}, MaxLines)

\* the check for identical elements left out
no_duplicate_check(lst) == FALSE

\* len(lst) != len(set(lst))
HasDuplicates(lst) == Len(lst) # Cardinality({lst[i] : i \in 1..Len(lst)})

\* the list built from the base list without the prefix
with_suffix_only(pre, base, suf) == [i \in 1..Len(base) |-> base[i] \o suf]

\* line 346: [to_prefix + fromStr + to_suffix for fromStr in temp_list]
create_to_list(pre, base, suf) == [i \in 1..Len(base) |-> pre \o base[i] \o suf]

\* the base list is always the 'from' list
base_from_only(m, from, to) == from

\* lines 320, 325: temp_list is the 'to' list when the method has l, else the 'from' list
base_list(m, from, to) == IF MethodHas(m, "l") THEN to ELSE from

\* an exception leaves the program
Raise(e) ==
    /\ pc' = "raised"
    /\ err' = e

\* lines 189-208: the method prompt, repeated until a method is typed
SelectMethod ==
    /\ pc = "method"
    /\ \E typed \in MethodInputs :
        IF typed \in DOMAIN replace_methods
        THEN /\ method' = typed
             /\ input_details' = DictSet(input_details, "Replace Method",
                                         replace_methods[typed])
             /\ pc' = "source"
        ELSE UNCHANGED <<method, input_details, pc>>
    /\ UNCHANGED <<err, caller, run, first, replace_vars, source_text, replace_list,
                   raw_to_list, temp_list, to_prefix, to_suffix, replacement_list,
                   search_prefix, search_suffix, summary_text, notes, written>>

\* lines 211-242: the source file, asked again while it cannot be opened (an
\* interpreter that rejects the mode 'U' raises ValueError, which line 224
\* catches like a failed open)
ReadSource ==
    /\ pc = "source"
    /\ \E opened \in BOOLEAN, content \in MainTexts :
        IF opened
        THEN /\ source_text' = content
             /\ input_details' = DictSet(input_details, "Source Text File", "source.txt")
             /\ pc' = "from"
        ELSE UNCHANGED <<source_text, input_details, pc>>
    /\ UNCHANGED <<err, caller, run, first, replace_vars, method, replace_list,
                   raw_to_list, temp_list, to_prefix, to_suffix, replacement_list,
                   search_prefix, search_suffix, summary_text, notes, written>>

\* lines 245-279: the 'from' list file; duplicate lines raise ValueError
ReadFromList ==
    /\ pc = "from"
    /\ \E opened \in BOOLEAN, lines \in FromFiles :
        IF ~ opened
        THEN UNCHANGED <<replace_list, input_details, pc, err>>
        ELSE IF HasDuplicates(lines)
        THEN /\ Raise("ValueError")
             /\ replace_list' = lines
             /\ UNCHANGED input_details
        ELSE /\ replace_list' = lines
             /\ input_details' = DictSet(input_details, "Replace List File", "from.txt")
             /\ pc' = "to"
             /\ UNCHANGED err
    /\ UNCHANGED <<caller, run, first, replace_vars, method, source_text,
                   raw_to_list, temp_list, to_prefix, to_suffix, replacement_list,
                   search_prefix, search_suffix, summary_text, notes, written>>

\* lines 282-325: with l the 'to' list file is read (duplicates only noted);
\* temp_list becomes the base list
HandleMethod ==
    /\ pc = "to"
    /\ IF MethodHas(method, "l")
       THEN \E opened \in BOOLEAN, lines \in ToFiles :
            IF ~ opened
            THEN UNCHANGED <<raw_to_list, temp_list, input_details, notes, pc>>
            ELSE /\ raw_to_list' = lines
                 /\ notes' = IF HasDuplicates(lines)
                             THEN notes \cup {"duplicate elements"} ELSE notes
                 /\ input_details' = DictSet(input_details, "Replacement List File", "to.txt")
                 /\ temp_list' = base_list(method, replace_list, lines)
                 /\ pc' = "to_prefix"
       ELSE /\ temp_list' = base_list(method, replace_list, raw_to_list)
            /\ pc' = "to_prefix"
            /\ UNCHANGED <<raw_to_list, input_details, notes>>
    /\ UNCHANGED <<err, caller, run, first, replace_vars, method, source_text,
                   replace_list, to_prefix, to_suffix, replacement_list,
                   search_prefix, search_suffix, summary_text, written>>

\* lines 327-334: the replacement prefix, asked when the method has p
AskPrefix ==
    /\ pc = "to_prefix"
    /\ IF MethodHas(method, "p")
       THEN \E typed \in Affixes :
            /\ to_prefix' = typed
            /\ input_details' = DictSet(input_details, "Replacement Prefix", typed)
       ELSE UNCHANGED <<to_prefix, input_details>>
    /\ pc' = "to_suffix"
    /\ UNCHANGED <<err, caller, run, first, replace_vars, method, source_text,
                   replace_list, raw_to_list, temp_list, to_suffix, replacement_list,
                   search_prefix, search_suffix, summary_text, notes, written>>

\* lines 336-343: the replacement suffix, asked when the method has s
AskSuffix ==
    /\ pc = "to_suffix"
    /\ IF MethodHas(method, "s")
       THEN \E typed \in Affixes :
            /\ to_suffix' = typed
            /\ input_details' = DictSet(input_details, "Replacement Suffix", typed)
       ELSE UNCHANGED <<to_suffix, input_details>>
    /\ pc' = "build"
    /\ UNCHANGED <<err, caller, run, first, replace_vars, method, source_text,
                   replace_list, raw_to_list, temp_list, to_prefix, replacement_list,
                   search_prefix, search_suffix, summary_text, notes, written>>

\* lines 345-350: the 'to' list is built; unequal lengths are only noted
CreateToList ==
    /\ pc = "build"
    /\ replacement_list' = create_to_list(to_prefix, temp_list, to_suffix)
    /\ notes' = IF Len(replace_list) # Len(temp_list)
                THEN notes \cup {"not equal number of elements"} ELSE notes
    /\ pc' = "search"
    /\ UNCHANGED <<err, caller, run, first, replace_vars, method, input_details,
                   source_text, replace_list, raw_to_list, temp_list, to_prefix,
                   to_suffix, search_prefix, search_suffix, summary_text, written>>

\* lines 352-384: the search affixes; the example printed at line 365 reads
\* from_list[0], an IndexError on an empty list; an affix is recorded in the
\* details only when it is not empty
SearchAffixes ==
    /\ pc = "search"
    /\ \E typed_prefix \in Affixes, typed_suffix \in Affixes, again \in BOOLEAN :
        IF replace_list = <<>>
        THEN /\ Raise("IndexError")
             /\ UNCHANGED <<search_prefix, search_suffix, input_details>>
        ELSE IF again
        THEN UNCHANGED <<search_prefix, search_suffix, input_details, pc, err>>
        ELSE /\ search_prefix' = typed_prefix
             /\ search_suffix' = typed_suffix
             /\ input_details' =
                  LET with_prefix == IF typed_prefix # EmptyStr
                                     THEN DictSet(input_details, "Search Prefix", typed_prefix)
                                     ELSE input_details
                  IN IF typed_suffix # EmptyStr
                     THEN DictSet(with_prefix, "Search Suffix", typed_suffix)
                     ELSE with_prefix
             /\ pc' = "call"
             /\ UNCHANGED err
    /\ UNCHANGED <<caller, run, first, replace_vars, method, source_text,
                   replace_list, raw_to_list, temp_list, to_prefix, to_suffix,
                   replacement_list, summary_text, notes, written>>

\* lines 91-98: main calls replace_strings with the text, the two lists and
\* input_details.get(...) of the two search affixes
CallReplaceStrings ==
    /\ pc = "call"
    /\ text' = source_text
    /\ from_list' = replace_list
    /\ to_list' = replacement_list
    /\ prefix' = DictGet(input_details, "Search Prefix")
    /\ suffix' = DictGet(input_details, "Search Suffix")
    /\ index' = 0
    /\ count' = 0
    /\ not_found' = <<>>
    /\ details' = <<>>
    /\ doc_states' = <<source_text>>
    /\ pc' = "loop"
    /\ UNCHANGED <<err, caller, run, first, sorted_details, summary, main_vars>>

\* lines 100-114: the summary text; replace_details[0] at line 109 is an
\* IndexError when no record was returned
PrintSummary ==
    /\ pc = "returned"
    /\ caller = "main"
    /\ IF sorted_details = <<>>
       THEN /\ Raise("IndexError")
            /\ UNCHANGED summary_text
       ELSE /\ summary_text' = "printed"
            /\ pc' = "review"
            /\ UNCHANGED err
    /\ UNCHANGED <<caller, run, first, replace_vars, method, input_details,
                   source_text, replace_list, raw_to_list, temp_list, to_prefix,
                   to_suffix, replacement_list, search_prefix, search_suffix,
                   notes, written>>

\* lines 116-147: the summary and the modified text are saved on "y"
SaveOrExit ==
    /\ pc = "review"
    /\ \E save_file \in {"y", "n"}, save_summary \in {"y", "n"} :
        written' = (IF save_summary = "y" THEN {"source_mod_summary.txt"} ELSE {})
                   \cup (IF save_file = "y" THEN {"source_mod.txt"} ELSE {})
    /\ pc' = "done"
    /\ UNCHANGED <<err, caller, run, first, replace_vars, method, input_details,
                   source_text, replace_list, raw_to_list, temp_list, to_prefix,
                   to_suffix, replacement_list, search_prefix, search_suffix,
                   summary_text, notes>>

\* the program started: main() is about to call get_user_input()
InitMain ==
    /\ pc = "method"
    /\ err = ""
    /\ caller = "main"
    /\ run = 1
    /\ first = NoFirst
    /\ Entered(EmptyStr, <<>>, <<>>, EmptyStr, EmptyStr)
    /\ MainIdle

NextMain ==
    \/ SelectMethod
    \/ ReadSource
    \/ ReadFromList
    \/ HandleMethod
    \/ AskPrefix
    \/ AskSuffix
    \/ CreateToList
    \/ SearchAffixes
    \/ CallReplaceStrings
    \/ LoopBody
    \/ SortAndReturn
    \/ PrintSummary
    \/ SaveOrExit

SpecMain == InitMain /\ [][NextMain]_vars


----------------------------------------------------------------------------
(* Properties of replace_strings called directly.                          *)

Instances(d) == d["Instances"]

RECURSIVE SumInstances(_)
SumInstances(ds) ==
    IF ds = <<>> THEN 0
    ELSE Instances(ds[1]) + SumInstances(SubSeq(ds, 2, Len(ds)))

\* the call replace_strings("a", ["a", "b"], ["b", "c"])
CascadeInput ==
    /\ doc_states[1] = StrA
    /\ from_list = <<StrA, StrB>>
    /\ to_list = <<StrB, StrC>>
    /\ prefix = EmptyStr
    /\ suffix = EmptyStr

\* C1: the pairs are processed in list order, and the instance count recorded
\* for term i is the number of occurrences of its full search string in the
\* document as rewritten by the terms before it, so a replacement made by an
\* earlier term is matched again by a later one: "a" with a->b, b->c ends as
\* "c", both records with Instances = 1.
C1_SequentialMatching ==
    /\ Len(doc_states) = Len(details) + 1
    /\ \A i \in 1..Len(details) :
        /\ details[i]["Original String"] = from_list[i]
        /\ details[i]["New String"] = to_list[i]
        /\ Instances(details[i])
             = str_count(doc_states[i], details[i]["Full Search String"])
    /\ (pc = "returned" /\ CascadeInput) =>
        /\ text = StrC
        /\ \A j \in 1..2 : Instances(sorted_details[j]) = 1

\* C1 witness: the cascade has run to its end
C1_Witness ==
    /\ pc = "returned"
    /\ CascadeInput
    /\ text = StrC
    /\ Instances(details[2]) = 1
    /\ str_count(doc_states[1], StrB) = 0

\* C2: replace_strings returns min(len(from_list), len(to_list)) records and
\* reports that number as "Searched for Strings": one record per processed
\* pair, found or not; an empty list gives no record, an all-zero summary and
\* the document as it was given.
C2_OneRecordPerPair ==
    pc = "returned" =>
        LET n == IF Len(from_list) <= Len(to_list) THEN Len(from_list) ELSE Len(to_list)
        IN /\ Len(sorted_details) = n
           /\ summary["Searched for Strings"] = n
           /\ \A i \in 1..n : \E j \in 1..Len(sorted_details) :
                /\ sorted_details[j]["Original String"] = from_list[i]
                /\ sorted_details[j]["New String"] = to_list[i]
           /\ (from_list = <<>> \/ to_list = <<>>) =>
                /\ sorted_details = <<>>
                /\ \A k \in DOMAIN summary : summary[k] = 0
                /\ text = doc_states[1]

\* C2 witness: lists of different lengths, the one processed term not found
C2_Witness ==
    /\ pc = "returned"
    /\ Len(from_list) = 2
    /\ Len(to_list) = 1
    /\ Len(sorted_details) = 1
    /\ Instances(sorted_details[1]) = 0

\* C3: the summary is the aggregate of the returned records, and the running
\* "Total Replaced" counter is at every moment the sum of the Instances of the
\* records made so far.
C3_SummaryIsAggregate ==
    /\ count = SumInstances(details)
    /\ pc = "returned" =>
        LET with(P(_)) == Cardinality({j \in 1..Len(sorted_details) :
                                          P(Instances(sorted_details[j]))})
        IN /\ summary["Strings Found"] = with(LAMBDA n : n > 0)
           /\ summary["Strings Not Found"] = with(LAMBDA n : n = 0)
           /\ summary["Strings Found"] + summary["Strings Not Found"]
                = summary["Searched for Strings"]
           /\ summary["Total Replaced"] = SumInstances(sorted_details)
           /\ summary["Multiple Instances"] = with(LAMBDA n : n > 1)

\* C3 witness: a term found more than once beside a term not found
C3_Witness ==
    /\ pc = "returned"
    /\ summary["Multiple Instances"] = 1
    /\ summary["Strings Not Found"] = 1
    /\ summary["Total Replaced"] >= 2

\* C4: the returned records are a permutation of the records made in the pass,
\* ascending by Instances, records of equal Instances in from_list order; the
\* sort leaves the document as the last iteration left it.
C4_StableAscendingSort ==
    pc = "returned" =>
        LET n == Len(details)
        IN /\ Len(sorted_details) = n
           /\ \E perm \in [1..n -> 1..n] :
                /\ \A k, l \in 1..n : perm[k] = perm[l] => k = l
                /\ \A k \in 1..n : sorted_details[k] = details[perm[k]]
                /\ \A k, l \in 1..n : k < l =>
                     \/ Instances(sorted_details[k]) < Instances(sorted_details[l])
                     \/ /\ Instances(sorted_details[k]) = Instances(sorted_details[l])
                        /\ perm[k] < perm[l]
           /\ text = doc_states[Len(doc_states)]

\* C4 witness: two different records of equal Instances behind a record that
\* the sort moved, or (two terms) a tie of two found terms
C4_Witness ==
    /\ pc = "returned"
    /\ Len(details) = 2
    /\ Instances(details[1]) = Instances(details[2])
    /\ Instances(details[1]) > 0
    /\ details[1] # details[2]

\* the positions where sub occurs in txt
Occurrences(txt, sub) == {p \in 1..(Len(txt) + 1) : OccursAt(txt, sub, p)}

\* G is what a left-to-right scan matches: an occurrence is matched exactly
\* when no earlier match covers its first character
IsScanMatchSet(G, txt, sub) ==
    /\ G \subseteq Occurrences(txt, sub)
    /\ \A p \in Occurrences(txt, sub) :
         p \in G <=> ~ \E q \in G : q < p /\ p < q + Len(sub)

\* the matches of a left-to-right scan, position by position: an occurrence
\* is a match exactly when none of the positions before it whose occurrence
\* would reach it is a match
ScanMatches(txt, sub) ==
    LET matched[p \in 1..(Len(txt) + 1)] ==
            /\ OccursAt(txt, sub, p)
            /\ \A q \in 1..(p - 1) : (p < q + Len(sub)) => ~ matched[q]
    IN {p \in 1..(Len(txt) + 1) : matched[p]}

\* new is old with exactly the matches G of sub replaced by rep: every
\* character outside a match kept, in order, and rep standing where each match stood
RewrittenAt(new, old, G, sub, rep) ==
    LET delta == Len(rep) - Len(sub)
        covered(k) == \E q \in G : q <= k /\ k < q + Len(sub)
        upto(k) == Cardinality({q \in G : q <= k})
        before(k) == Cardinality({q \in G : q < k})
    IN /\ Len(new) = Len(old) + Cardinality(G) * delta
       /\ \A k \in 1..Len(old) :
            ~ covered(k) => new[k + upto(k) * delta] = old[k]
       /\ \A q \in G :
            SubSeq(new, q + before(q) * delta, q + before(q) * delta + Len(rep) - 1) = rep

\* C9: for each processed term, Instances is the number of matches of a
\* left-to-right non-overlapping scan of the current document for the full
\* search string, exactly those matches are replaced by the full replace
\* string (the replacement text is not scanned again), and a term with no
\* instance leaves the document unchanged.
C9_ScanAndReplace ==
    \A i \in 1..Len(details) :
        LET old == doc_states[i]
            new == doc_states[i + 1]
            sub == details[i]["Full Search String"]
            rep == details[i]["Full Replace"]
            G == ScanMatches(old, sub)
        IN /\ IsScanMatchSet(G, old, sub)
           /\ Instances(details[i]) = Cardinality(G)
           /\ RewrittenAt(new, old, G, sub, rep)
           /\ Instances(details[i]) = 0 => new = old

\* C9 witness: occurrences that overlap, of which the scan matched fewer, and
\* a replacement that itself holds the search string
C9_Witness ==
    /\ Len(details) = 2
    /\ Instances(details[1]) >= 1
    /\ Instances(details[1])
         < count_overlapping(doc_states[1], details[1]["Full Search String"])
    /\ doc_states[2] # doc_states[1]
    /\ Instances(details[2]) >= 1
    /\ Occurrences(details[2]["Full Replace"], details[2]["Full Search String"]) # {}

----------------------------------------------------------------------------
(* Properties of the scope affixes and of a second run.                    *)

\* the positions where term stands immediately preceded by pre and
\* immediately followed by suf
BoundedOccurrences(txt, term, pre, suf) ==
    {p \in 1..(Len(txt) + 1) :
        /\ OccursAt(txt, term, p)
        /\ OccursAt(txt, pre, p - Len(pre))
        /\ OccursAt(txt, suf, p + Len(term))}

\* each record's full strings are the affixes around its term
FullStringsComposed ==
    \A i \in 1..Len(details) :
        /\ details[i]["Full Search String"]
             = prefix \o details[i]["Original String"] \o suffix
        /\ details[i]["Full Replace"] = prefix \o details[i]["New String"] \o suffix

\* C5 as claimed: each term's step rewrites every occurrence of the term that
\* stands between the scope prefix and the scope suffix to the replacement,
\* the affixes kept, and leaves everything else untouched.
C5_EveryBoundedOccurrence ==
    /\ FullStringsComposed
    /\ \A i \in 1..Len(details) :
         RewrittenAt(doc_states[i + 1], doc_states[i],
                     BoundedOccurrences(doc_states[i], details[i]["Original String"],
                                        prefix, suffix),
                     details[i]["Original String"], details[i]["New String"])

\* C5 as amended: each term's step rewrites the bounded occurrences that the
\* left-to-right non-overlapping scan for prefix + term + suffix matches (a
\* bounded occurrence whose prefix is the suffix of the match before it is
\* skipped), which is every bounded occurrence when no two of them share an
\* affix character; the affixes are kept and everything outside the rewritten
\* terms, an unbounded occurrence of the term included, is untouched.
C5_ScopedRewrite ==
    /\ FullStringsComposed
    /\ \A i \in 1..Len(details) :
        LET old == doc_states[i]
            term == details[i]["Original String"]
            B == BoundedOccurrences(old, term, prefix, suffix)
            apart == \A p, q \in B :
                        p < q => p + Len(term) + Len(suffix) <= q - Len(prefix)
        IN /\ \E G \in SUBSET B :
                /\ IsScanMatchSet({p - Len(prefix) : p \in G}, old,
                                  details[i]["Full Search String"])
                /\ Instances(details[i]) = Cardinality(G)
                /\ RewrittenAt(doc_states[i + 1], old, G, term, details[i]["New String"])
           /\ apart => /\ Instances(details[i]) = Cardinality(B)
                       /\ RewrittenAt(doc_states[i + 1], old, B, term,
                                      details[i]["New String"])

\* C5 witness: between the affixes "c" the term is found and rewritten, while
\* an occurrence of it that is not bounded by both stays
C5_Witness ==
    /\ Len(details) = 1
    /\ prefix = StrC
    /\ suffix = StrC
    /\ Instances(details[1]) >= 1
    /\ LET term == details[1]["Original String"]
           B == BoundedOccurrences(doc_states[1], term, prefix, suffix)
       IN /\ Cardinality(B) = Instances(details[1])
          /\ Occurrences(doc_states[1], term) \ B # {}
          /\ Occurrences(doc_states[2], term) # {}

\* the full search / full replace string of the i-th pair of the call
FullSearch(i) == prefix \o from_list[i] \o suffix
FullReplace(i) == prefix \o to_list[i] \o suffix
NPairs == IF Len(from_list) <= Len(to_list) THEN Len(from_list) ELSE Len(to_list)
Pairs == 1..NPairs
IsSubstring(sub, txt) == Occurrences(txt, sub) # {}
Chars(str) == {str[k] : k \in 1..Len(str)}

\* the search terms are pairwise different, none a substring of another, and
\* no full search string occurs in a replacement text or full replace string
DisjointTerms ==
    /\ \A i, j \in Pairs : i # j => ~ IsSubstring(from_list[i], from_list[j])
    /\ \A i, j \in Pairs :
        /\ ~ IsSubstring(FullSearch(j), to_list[i])
        /\ ~ IsSubstring(FullSearch(j), FullReplace(i))

\* a second run has returned
SecondRunReturned == run = 2 /\ pc = "returned"

\* the second run found nothing and returned the text it was given
NothingLeft ==
    /\ \A j \in 1..Len(details) : Instances(details[j]) = 0
    /\ text = first.text

\* the sum of a sequence of numbers
SumSeq(ns) ==
    LET partial[k \in 0..Len(ns)] == IF k = 0 THEN 0 ELSE partial[k - 1] + ns[k]
    IN partial[Len(ns)]

\* C7 as claimed: for disjoint terms whose replacements match no full search
\* string, the first run removed as many full-search occurrences as it added
\* full-replace occurrences, and a second run on its output finds no instance
\* and returns the document unchanged.
C7_RemovedEqualsAddedAndIdempotent ==
    (SecondRunReturned /\ DisjointTerms) =>
        LET given == first.doc_states[1]
            removed(i) == str_count(given, FullSearch(i)) - str_count(first.text, FullSearch(i))
            added(i) == str_count(first.text, FullReplace(i)) - str_count(given, FullReplace(i))
        IN /\ SumSeq([i \in Pairs |-> removed(i)]) = SumSeq([i \in Pairs |-> added(i)])
           /\ NothingLeft

\* what the amended claim asks besides: full search strings and replacement
\* terms are non-empty, no character of a replacement term occurs in a full
\* search string, and no two occurrences of full search strings overlap in
\* the document given to the first run
SeparateTerms ==
    LET given == first.doc_states[1]
    IN /\ \A i \in Pairs : FullSearch(i) # EmptyStr /\ to_list[i] # EmptyStr
       /\ \A i, j \in Pairs : Chars(to_list[i]) \cap Chars(FullSearch(j)) = {}
       /\ \A i, j \in Pairs :
            \A p \in Occurrences(given, FullSearch(i)), q \in Occurrences(given, FullSearch(j)) :
                (i # j \/ p # q) =>
                    \/ p + Len(FullSearch(i)) <= q
                    \/ q + Len(FullSearch(j)) <= p

\* C7 as amended: under DisjointTerms and SeparateTerms the first run replaced
\* every occurrence of every full search string of the given document by one
\* full replace string each (Instances is the number of occurrences, none is
\* left, the length changes by Instances times the difference of the two
\* lengths), and a second run finds no instance and returns the document
\* unchanged.
C7_SeparateTermsIdempotent ==
    (SecondRunReturned /\ DisjointTerms /\ SeparateTerms) =>
        LET given == first.doc_states[1]
            made == first.details
            grown(i) == Instances(made[i]) * (Len(FullReplace(i)) - Len(FullSearch(i)))
        IN /\ \A i \in Pairs :
                /\ Instances(made[i]) = Cardinality(Occurrences(given, FullSearch(i)))
                /\ Occurrences(first.text, FullSearch(i)) = {}
           /\ Len(first.text) = Len(given) + SumSeq([i \in Pairs |-> grown(i)])
           /\ NothingLeft

\* C7 witness: two terms, both found in the first run and one of them more
\* than once, then a second run that has returned
C7_Witness ==
    /\ SecondRunReturned
    /\ DisjointTerms
    /\ SeparateTerms
    /\ Len(first.details) = 2
    /\ \A i \in 1..2 : Instances(first.details[i]) >= 1
    /\ first.summary["Total Replaced"] >= 3
    /\ NothingLeft

----------------------------------------------------------------------------
(* Properties of the whole program.                                        *)

\* get_user_input has built the replacement list (line 346 has run)
ToListCreated ==
    \/ pc \in {"search", "call", "loop", "returned", "review", "done"}
    \/ pc = "raised" /\ err \in {"IndexError", "TypeError"}

\* main has called replace_strings (line 94)
ReplaceStringsCalled ==
    /\ caller = "main"
    /\ \/ pc \in {"loop", "returned", "review", "done"}
       \/ pc = "raised" /\ err = "TypeError"
       \/ pc = "raised" /\ err = "IndexError" /\ replace_list # <<>>

\* C10: for each of the seven methods the replacement list is prefix + entry +
\* suffix for every entry of the base list in order, the base list being the
\* 'to' list when the method has l and the 'from' list otherwise, prefix and
\* suffix being empty unless the method has p / s; so it has the base list's
\* length and equals the base list when neither p nor s is selected.
C10_ReplacementListBuilt ==
    ToListCreated =>
        LET base == IF "l" \in Chars(method) THEN raw_to_list ELSE replace_list
            pre == IF "p" \in Chars(method) THEN input_details["Replacement Prefix"]
                   ELSE EmptyStr
            suf == IF "s" \in Chars(method) THEN input_details["Replacement Suffix"]
                   ELSE EmptyStr
        IN /\ method \in DOMAIN replace_methods
           /\ Len(replacement_list) = Len(base)
           /\ \A i \in 1..Len(base) : replacement_list[i] = pre \o base[i] \o suf
           /\ ("p" \notin Chars(method) /\ "s" \notin Chars(method)) =>
                replacement_list = base

\* C10 witness: method lps with a 'to' list longer than the 'from' list
C10_Witness ==
    /\ pc = "search"
    /\ method = <<"l", "p", "s">>
    /\ replace_list = <<StrA>>
    /\ raw_to_list = <<StrB, StrC>>
    /\ to_prefix = StrC
    /\ to_suffix = StrC
    /\ replacement_list = <<<<"c", "b", "c">>, <<"c", "c", "c">>>>

\* C6: an empty search prefix or suffix is a no-op: it is not recorded in the
\* input details, and the run through main's call of replace_strings matches
\* every term as replace_strings does with that affix equal to "", without
\* raising.
C6_EmptyAffixIsNoOp ==
    (ReplaceStringsCalled /\ (search_prefix = EmptyStr \/ search_suffix = EmptyStr)) =>
        /\ search_prefix = EmptyStr => "Search Prefix" \notin DOMAIN input_details
        /\ search_suffix = EmptyStr => "Search Suffix" \notin DOMAIN input_details
        /\ err # "TypeError"
        /\ \A i \in 1..Len(details) :
             details[i]["Full Search String"]
               = search_prefix \o details[i]["Original String"] \o search_suffix

\* an empty 'from' list, an empty 'to' list, or lists of different lengths
EmptyOrMismatched ==
    \/ pc \notin {"method", "source", "from"} /\ err # "ValueError" /\ replace_list = <<>>
    \/ ToListCreated /\ Len(replace_list) # Len(replacement_list)

\* C8: a length mismatch between the 'from' and 'to' lists, or an empty list,
\* never aborts the run: no exception comes of it (IndexError is the one an
\* empty list raises), and the lists reach replace_strings and the summary.
C8_MismatchNeverAborts ==
    EmptyOrMismatched => err # "IndexError"

\* some entry of lst stands at two places
Repeats(lst) == \E i, j \in 1..Len(lst) : i # j /\ lst[i] = lst[j]

====
